---- MODULE Spec2Model ----
(***************************************************************************)
(* A model of the whirlwind ECS runtime (src/src/ecs/world.rs,             *)
(* src/src/ecs/entity.rs, src/src/ecs/component.rs).                       *)
(*                                                                         *)
(* The World owns three hash maps: components (type name -> Vec of         *)
(* Option<Box<dyn Component>>), resources (type name -> Box) and schedules *)
(* (name -> Vec of fn(&mut World)).  Every public method of World and of   *)
(* EntityWorld that reads or writes the maps is one action; the print_     *)
(* methods only write to stdout.  A Rust panic (index out of bounds,       *)
(* expect on None) is recorded in the variable halted; a halted program    *)
(* takes no further step.                                                  *)
(***************************************************************************)
EXTENDS Integers, Sequences, FiniteSets, TLC

\* ------------------------------------------------------------------ bounds
\* Number of spawn calls explored on one World.
MaxSpawns == 3
\* Component types the callers instantiate the generic methods with.
Types == {"Position", "Velocity"}
\* Payloads of the components and resources the callers store.
Values == {1, 2}
\* Systems stored in one schedule.
MaxSystems == 2

\* Entity(usize) values a caller can pass: every row that can exist and one
\* index past the end of every array.
Entities == 0..MaxSpawns

\* ------------------------------------------------------------------ values
\* Option<Box<dyn Component>>: None, or a box whose dynamic type is ty.
None == [some |-> FALSE, ty |-> "", val |-> 0]
Some(T, v) == [some |-> TRUE, ty |-> T, val |-> v]

type_name_unqualified(T) ==
    CASE T \in {"Position", "Velocity"} -> "Component"
      [] T \in {"X", "Y"} -> "Resource"

\* std::any::type_name::<T>(): the key of the maps.
type_name(T) ==
    CASE T = "Position" -> "whirlwind::Position"
      [] T = "Velocity" -> "whirlwind::Velocity"
      [] T = "X" -> "whirlwind::X"
      [] T = "Y" -> "whirlwind::Y"

\* <dyn Component>::downcast_ref::<T>(): the box's value when its dynamic
\* type is T, absence otherwise.
downcast_ref(box, T) == IF box.ty = T THEN Some(T, box.val) ELSE None

VARIABLES
    components,  \* World.components: type name -> sequence of slots (row e at index e+1)
    resources,   \* World.resources: type name -> box
    schedules,   \* World.schedules: name -> sequence of systems
    halted,      \* TRUE once a method panicked
    spawned,     \* history: the entity ids returned by the spawn calls, in call order
    added,       \* history: per schedule name, the systems passed to add_system
                 \* while the name was registered, since its last register_schedule
    last,        \* history: the last method called, its arguments and result
    handle       \* the EntityWorld returned by spawn while it is alive: it holds the
                 \* exclusive borrow of the World, so no World method is called meanwhile

vars == <<components, resources, schedules, halted, spawned, added, last, handle>>
schedvars == <<resources, schedules, added>>

\* EntityWorld { world, entity }, and the state with no EntityWorld alive.
EntityWorld(e) == [live |-> TRUE, entity |-> e]
NoEntityWorld == [live |-> FALSE, entity |-> 0]

\* A method called on the World itself: no EntityWorld borrows it.
OnWorld == ~handle.live /\ handle' = handle

Call(op, T, e, v, ret, list) ==
    [op |-> op, ty |-> T, e |-> e, val |-> v, ret |-> ret, list |-> list]

first_len_zero(comps) == {0}

\* self.components.values().next().map_or(0, |v| v.len()): the length of
\* whichever array the hash map iterates first, 0 for an empty map.  The
\* iteration order of a hash map is unspecified, so every array is a candidate.
first_len(comps) ==
    IF DOMAIN comps = {} THEN {0} ELSE {Len(comps[k]) : k \in DOMAIN comps}

register_component_empty(comps, T, len) ==
    [k \in DOMAIN comps \cup {type_name(T)} |->
        IF k = type_name(T) THEN <<>> ELSE comps[k]]

\* World::register_component::<T>() with len the value read from first_len:
\* inserts (replacing any previous array) len absent slots under T's name.
register_component(comps, T, len) ==
    [k \in DOMAIN comps \cup {type_name(T)} |->
        IF k = type_name(T) THEN [i \in 1..len |-> None] ELSE comps[k]]

spawn_push_one(comps) ==
    [k \in DOMAIN comps |->
        IF k = (CHOOSE x \in DOMAIN comps : TRUE)
        THEN Append(comps[k], None) ELSE comps[k]]

\* The loop of World::spawn: push(None) on every array.
spawn_push(comps) == [k \in DOMAIN comps |-> Append(comps[k], None)]

despawn_grow(comps, e) ==
    [k \in DOMAIN comps |->
        IF e < Len(comps[k]) THEN [comps[k] EXCEPT ![e + 1] = None]
        ELSE comps[k] \o [i \in 1..(e + 1 - Len(comps[k])) |-> None]]

\* World::despawn: in every array, the slot at row e becomes None when the
\* array has such a row (Vec::get_mut), and nothing else changes.
despawn_remove_row(comps, e) ==
    [k \in DOMAIN comps |->
        IF e < Len(comps[k])
        THEN SubSeq(comps[k], 1, e) \o SubSeq(comps[k], e + 2, Len(comps[k]))
        ELSE comps[k]]

despawn(comps, e) ==
    [k \in DOMAIN comps |->
        IF e < Len(comps[k]) THEN [comps[k] EXCEPT ![e + 1] = None] ELSE comps[k]]

add_component_grow(comps, e, T, v, len) ==
    LET c == IF type_name(T) \in DOMAIN comps THEN comps
             ELSE register_component(comps, T, len)
        arr == c[type_name(T)]
        padded == IF e < Len(arr) THEN arr
                  ELSE arr \o [i \in 1..(e + 1 - Len(arr)) |-> None]
    IN [components |-> [c EXCEPT ![type_name(T)] = [padded EXCEPT ![e + 1] = Some(T, v)]],
        panicked |-> FALSE]

\* World::add_component::<T>(entity, component).  components[entity.0] = ...
\* panics when entity.0 is out of bounds.  For an unregistered T the method
\* registers T and calls itself again.
RECURSIVE add_component(_, _, _, _, _)
add_component(comps, e, T, v, len) ==
    IF type_name(T) \in DOMAIN comps
    THEN IF e < Len(comps[type_name(T)])
         THEN [components |-> [comps EXCEPT ![type_name(T)][e + 1] = Some(T, v)],
               panicked |-> FALSE]
         ELSE [components |-> comps, panicked |-> TRUE]
    ELSE add_component(register_component(comps, T, len), e, T, v, len)

\* World::remove_component::<T>(entity).
remove_component(comps, e, T, len) ==
    IF type_name(T) \in DOMAIN comps
    THEN IF e < Len(comps[type_name(T)])
         THEN [components |-> [comps EXCEPT ![type_name(T)][e + 1] = None],
               panicked |-> FALSE]
         ELSE [components |-> comps, panicked |-> TRUE]
    ELSE [components |-> register_component(comps, T, len), panicked |-> FALSE]

\* World::get_component::<T>(entity): map.get(name)?.get(entity.0)?.as_ref()?
\* .downcast_ref::<T>()
get_component(comps, e, T) ==
    IF type_name(T) \notin DOMAIN comps THEN None
    ELSE IF ~(e < Len(comps[type_name(T)])) THEN None
    ELSE IF ~comps[type_name(T)][e + 1].some THEN None
    ELSE downcast_ref(comps[type_name(T)][e + 1], T)

\* The iterator chain of World::query: enumerate().filter_map(..).collect()
\* over the rows from index i on.
RECURSIVE query_from(_, _, _)
query_from(vec, T, i) ==
    IF i >= Len(vec) THEN <<>>
    ELSE LET c == vec[i + 1]
             hit == IF c.some THEN downcast_ref(c, T) ELSE None
         IN (IF hit.some THEN <<[entity |-> i, val |-> hit.val]>> ELSE <<>>)
            \o query_from(vec, T, i + 1)

query_count_hits(comps, T) ==
    IF type_name(T) \in DOMAIN comps
    THEN LET hits == query_from(comps[type_name(T)], T, 0)
         IN [i \in DOMAIN hits |-> [entity |-> i - 1, val |-> hits[i].val]]
    ELSE <<>>

\* World::query::<T>()
query(comps, T) ==
    IF type_name(T) \in DOMAIN comps
    THEN query_from(comps[type_name(T)], T, 0)
    ELSE <<>>

\* World::query_mut::<T>(): the same chain through iter_mut, as_mut and
\* downcast_mut; one (Entity, &mut T) per row that holds a T.
query_mut(comps, T) ==
    IF type_name(T) \in DOMAIN comps
    THEN query_from(comps[type_name(T)], T, 0)
    ELSE <<>>

\* World::get_single::<T>()
get_single(comps, T) ==
    IF type_name(T) \notin DOMAIN comps THEN None
    ELSE IF Len(comps[type_name(T)]) # 1 THEN None
    ELSE LET hits == query_from(comps[type_name(T)], T, 0)
         IN IF hits = <<>> THEN None ELSE Some(T, hits[1].val)

\* World::get_component_mut::<T>(entity): the same chain through get_mut,
\* as_mut and downcast_mut.
get_component_mut(comps, e, T) ==
    IF type_name(T) \notin DOMAIN comps THEN None
    ELSE IF ~(e < Len(comps[type_name(T)])) THEN None
    ELSE IF ~comps[type_name(T)][e + 1].some THEN None
    ELSE downcast_ref(comps[type_name(T)][e + 1], T)

\* World::get_single_mut::<T>()
get_single_mut(comps, T) ==
    IF type_name(T) \notin DOMAIN comps THEN None
    ELSE IF Len(comps[type_name(T)]) # 1 THEN None
    ELSE LET hits == query_from(comps[type_name(T)], T, 0)
         IN IF hits = <<>> THEN None ELSE Some(T, hits[1].val)

\* An assignment of v through the &mut T a _mut accessor returned for row e.
write_component(comps, e, T, v) ==
    [comps EXCEPT ![type_name(T)][e + 1] = Some(T, v)]

\* The assignments of f[e] through the &mut T that query_mut returned for
\* each row e; f is defined on the returned rows.
write_query(comps, T, f) ==
    IF type_name(T) \in DOMAIN comps
    THEN [comps EXCEPT ![type_name(T)] =
             [i \in DOMAIN @ |-> IF (i - 1) \in DOMAIN f THEN Some(T, f[i - 1]) ELSE @[i]]]
    ELSE comps

\* EntityWorld::insert, remove, id, despawn, get_component and
\* get_component_mut: each forwards to the World with self.entity; insert and
\* remove return self.
EntityWorld_insert_next(comps, h, T, v, len) ==
    [world |-> add_component(comps, h.entity, T, v, len),
     self |-> EntityWorld(h.entity + 1)]

EntityWorld_insert(comps, h, T, v, len) ==
    [world |-> add_component(comps, h.entity, T, v, len), self |-> h]

EntityWorld_remove(comps, h, T, len) ==
    [world |-> remove_component(comps, h.entity, T, len), self |-> h]

EntityWorld_id(h) == h.entity

EntityWorld_despawn(comps, h) == despawn(comps, h.entity)

EntityWorld_get_component(comps, h, T) == get_component(comps, h.entity, T)

EntityWorld_get_component_mut(comps, h, T) == get_component_mut(comps, h.entity, T)

\* ------------------------------------------------- resources and schedules
\* Resource types, schedule names and the system functions (fn(&mut World))
\* the driver registers.
ResTypes == {"X", "Y"}
Names == {"update", "render"}
Systems == {"S1", "S2", "SAdd"}
\* The systems of a schedule that changes itself while it runs.
RunSystems == {"S1", "SAdd", "SReg"}

\* Box<dyn Component> holding a resource of type T.
Box(T, v) == [ty |-> T, val |-> v]

insert_resource_keep(res, T, v) ==
    [k \in DOMAIN res \cup {type_name(T)} |->
        IF k \in DOMAIN res THEN res[k] ELSE Box(T, v)]

\* World::insert_resource::<T>(resource)
insert_resource(res, T, v) ==
    [k \in DOMAIN res \cup {type_name(T)} |->
        IF k = type_name(T) THEN Box(T, v) ELSE res[k]]

\* World::init_resource::<T>(): T::default(), which is 0 for the counters.
init_resource(res, T) == insert_resource(res, T, 0)

get_resource_or_default(res, T) ==
    IF type_name(T) \notin DOMAIN res THEN Some(T, 0) ELSE downcast_ref(res[type_name(T)], T)

\* World::get_resource::<T>()
get_resource(res, T) ==
    IF type_name(T) \notin DOMAIN res THEN None ELSE downcast_ref(res[type_name(T)], T)

\* World::get_resource_mut::<T>(): the same lookup through get_mut and
\* downcast_mut.
get_resource_mut(res, T) ==
    IF type_name(T) \notin DOMAIN res THEN None ELSE downcast_ref(res[type_name(T)], T)

\* An assignment of v through the &mut T a _mut accessor returned.
write_resource(res, T, v) == [res EXCEPT ![type_name(T)] = Box(T, v)]

expect_or_default(opt) ==
    [ret |-> IF opt.some THEN opt ELSE Some(opt.ty, 0), panicked |-> FALSE]

\* Option::expect(msg): the value, or a panic on None.
expect(opt) == [ret |-> opt, panicked |-> ~opt.some]

\* World::single::<T>() and World::single_mut::<T>()
single(comps, T) == expect(get_single(comps, T))
single_mut(comps, T) == expect(get_single_mut(comps, T))

\* EntityWorld::component::<T>() and EntityWorld::component_mut::<T>()
EntityWorld_component(comps, h, T) == expect(EntityWorld_get_component(comps, h, T))
EntityWorld_component_mut(comps, h, T) ==
    expect(EntityWorld_get_component_mut(comps, h, T))

\* World::resource::<T>()
resource(res, T) == expect(get_resource(res, T))

\* World::resource_mut::<T>()
resource_mut(res, T) == expect(get_resource_mut(res, T))

register_schedule_keep(scheds, name) ==
    [k \in DOMAIN scheds \cup {name} |-> IF k \in DOMAIN scheds THEN scheds[k] ELSE <<>>]

register_schedule_clear(scheds, name) ==
    [k \in DOMAIN scheds \cup {name} |-> <<>>]

\* World::register_schedule(name)
register_schedule(scheds, name) ==
    [k \in DOMAIN scheds \cup {name} |-> IF k = name THEN <<>> ELSE scheds[k]]

add_system_or_insert(scheds, name, sys) ==
    [k \in DOMAIN scheds \cup {name} |->
        IF k = name
        THEN (IF k \in DOMAIN scheds THEN Append(scheds[k], sys) ELSE <<sys>>)
        ELSE scheds[k]]

\* World::add_system(schedule_name, system)
add_system_front(scheds, name, sys) ==
    IF name \in DOMAIN scheds
    THEN [scheds EXCEPT ![name] = <<sys>> \o scheds[name]]
    ELSE scheds

add_system(scheds, name, sys) ==
    IF name \in DOMAIN scheds
    THEN [scheds EXCEPT ![name] = Append(scheds[name], sys)]
    ELSE scheds

\* History of the add_system calls: the call is noted under its name when the
\* name is registered at the time of the call.
note_add(hist, scheds, name, sys) ==
    IF name \in DOMAIN scheds
    THEN [k \in DOMAIN hist \cup {name} |->
            IF k \in DOMAIN hist
            THEN (IF k = name THEN hist[k] \o <<sys>> ELSE hist[k])
            ELSE <<sys>>]
    ELSE hist

\* History of register_schedule: the name starts again with no system noted.
note_register(hist, name) ==
    [k \in DOMAIN hist \cup {name} |-> IF k = name THEN <<>> ELSE hist[k]]

\* The body of each system, on the part of the World it touches.
\*   S1:   world.insert_resource(X(1))
\*   S2:   if let Some(x) = world.get_resource::<X>() { world.insert_resource(Y(x.0 + 1)) }
\*   SAdd: world.add_system("update", S1)
\*   SReg: world.register_schedule("update")
system(sys, w) ==
    CASE sys = "S1" -> [w EXCEPT !.resources = insert_resource(w.resources, "X", 1)]
      [] sys = "S2" ->
            LET x == get_resource(w.resources, "X")
            IN IF x.some
               THEN [w EXCEPT !.resources = insert_resource(w.resources, "Y", x.val + 1)]
               ELSE w
      [] sys = "SAdd" ->
            [w EXCEPT !.schedules = add_system(w.schedules, "update", "S1"),
                      !.added = note_add(w.added, w.schedules, "update", "S1")]
      [] sys = "SReg" ->
            [w EXCEPT !.schedules = register_schedule(w.schedules, "update"),
                      !.added = note_register(w.added, "update")]

\* The loop of World::run_schedule over the cloned list, from position i on:
\* system(self) for each element, in list order.
RECURSIVE run_systems(_, _, _)
run_systems(systems, i, w) ==
    IF i > Len(systems) THEN w
    ELSE run_systems(systems, i + 1,
                     [system(systems[i], w) EXCEPT !.invoked = @ \o <<systems[i]>>])

\* World::run_system(system): system(self).
run_system(w, sys) == [system(sys, w) EXCEPT !.invoked = @ \o <<sys>>]

RECURSIVE run_systems_live(_, _, _)
run_systems_live(name, i, w) ==
    IF i > Len(w.schedules[name]) THEN w
    ELSE run_systems_live(name, i + 1,
                          [system(w.schedules[name][i], w)
                              EXCEPT !.invoked = @ \o <<w.schedules[name][i]>>])

run_schedule_live(w, name) ==
    IF name \in DOMAIN w.schedules
    THEN run_systems_live(name, 1, w)
    ELSE w

\* World::run_schedule(schedule_name): the list is cloned before the loop.
run_schedule(w, name) ==
    IF name \in DOMAIN w.schedules
    THEN run_systems(w.schedules[name], 1, w)
    ELSE w

\* ------------------------------------------------------------------ actions
Init ==
    /\ components = <<>>
    /\ resources = <<>>
    /\ schedules = <<>>
    /\ added = <<>>
    /\ halted = FALSE
    /\ spawned = <<>>
    /\ last = Call("new", "", 0, 0, None, <<>>)
    /\ handle = NoEntityWorld

\* last.ret and last.list hold what HashMap::insert returns: the array T had
\* before the call, if any.
RegisterComponent(T) ==
    /\ ~halted
    /\ OnWorld
    /\ UNCHANGED schedvars
    /\ \E len \in first_len(components) :
          components' = register_component(components, T, len)
    /\ last' = IF type_name(T) \in DOMAIN components
               THEN Call("register_component", T, 0, 0, Some(T, 0),
                         components[type_name(T)])
               ELSE Call("register_component", T, 0, 0, None, <<>>)
    /\ UNCHANGED <<halted, spawned>>

Spawn ==
    /\ ~halted
    /\ OnWorld
    /\ UNCHANGED schedvars
    /\ Len(spawned) < MaxSpawns
    /\ \E id \in first_len(components) :
          /\ components' = spawn_push(components)
          /\ spawned' = Append(spawned, id)
          /\ last' = Call("spawn", "", id, 0, None, <<>>)
    /\ UNCHANGED halted

Despawn(e) ==
    /\ ~halted
    /\ OnWorld
    /\ UNCHANGED schedvars
    /\ components' = despawn(components, e)
    /\ last' = Call("despawn", "", e, 0, None, <<>>)
    /\ UNCHANGED <<halted, spawned>>

AddComponent(e, T, v) ==
    /\ ~halted
    /\ OnWorld
    /\ UNCHANGED schedvars
    /\ \E len \in first_len(components) :
          LET r == add_component(components, e, T, v, len)
          IN /\ components' = r.components
             /\ halted' = r.panicked
    /\ last' = Call("add_component", T, e, v, None, <<>>)
    /\ UNCHANGED spawned

RemoveComponent(e, T) ==
    /\ ~halted
    /\ OnWorld
    /\ UNCHANGED schedvars
    /\ \E len \in first_len(components) :
          LET r == remove_component(components, e, T, len)
          IN /\ components' = r.components
             /\ halted' = r.panicked
    /\ last' = Call("remove_component", T, e, 0, None, <<>>)
    /\ UNCHANGED spawned

GetComponent_index(e, T) ==
    /\ ~halted
    /\ OnWorld
    /\ UNCHANGED schedvars
    /\ IF type_name(T) \in DOMAIN components /\ ~(e < Len(components[type_name(T)]))
       THEN halted' = TRUE /\ last' = Call("get_component", T, e, 0, None, <<>>)
       ELSE /\ halted' = halted
            /\ last' = Call("get_component", T, e, 0, get_component(components, e, T), <<>>)
    /\ UNCHANGED <<components, spawned>>

GetComponent(e, T) ==
    /\ ~halted
    /\ OnWorld
    /\ UNCHANGED schedvars
    /\ last' = Call("get_component", T, e, 0, get_component(components, e, T), <<>>)
    /\ UNCHANGED <<components, halted, spawned>>

Query(T) ==
    /\ ~halted
    /\ OnWorld
    /\ UNCHANGED schedvars
    /\ last' = Call("query", T, 0, 0, None, query(components, T))
    /\ UNCHANGED <<components, halted, spawned>>

\* The rows query_mut::<T>() returns a reference for.
QueryRows(T) ==
    LET hits == query_mut(components, T)
    IN {hits[i].entity : i \in DOMAIN hits}

\* query_mut, the caller assigning a value f[e] through the reference it got
\* for each row e (assigning the value a row already holds leaves the row as
\* it is).
QueryMut(T) ==
    /\ ~halted
    /\ OnWorld
    /\ UNCHANGED schedvars
    /\ \E f \in [QueryRows(T) -> Values] :
          components' = write_query(components, T, f)
    /\ last' = Call("query_mut", T, 0, 0, None, query_mut(components, T))
    /\ UNCHANGED <<halted, spawned>>

GetSingle(T) ==
    /\ ~halted
    /\ OnWorld
    /\ UNCHANGED schedvars
    /\ last' = Call("get_single", T, 0, 0, get_single(components, T), <<>>)
    /\ UNCHANGED <<components, halted, spawned>>

\* For init_resource and insert_resource last.ret holds what HashMap::insert
\* returns: the box T had before the call, if any.
InitResource(T) ==
    /\ ~halted
    /\ OnWorld
    /\ resources' = init_resource(resources, T)
    /\ last' = Call("init_resource", T, 0, 0, get_resource(resources, T), <<>>)
    /\ UNCHANGED <<components, schedules, halted, spawned, added>>

InsertResource(T, v) ==
    /\ ~halted
    /\ OnWorld
    /\ resources' = insert_resource(resources, T, v)
    /\ last' = Call("insert_resource", T, 0, v, get_resource(resources, T), <<>>)
    /\ UNCHANGED <<components, schedules, halted, spawned, added>>

GetResource(T) ==
    /\ ~halted
    /\ OnWorld
    /\ last' = Call("get_resource", T, 0, 0, get_resource(resources, T), <<>>)
    /\ UNCHANGED <<components, resources, schedules, halted, spawned, added>>

\* get_resource_mut, the caller assigning v through the reference it got.
GetResourceMut(T, v) ==
    /\ ~halted
    /\ OnWorld
    /\ LET r == get_resource_mut(resources, T)
       IN /\ resources' = IF r.some THEN write_resource(resources, T, v) ELSE resources
          /\ last' = Call("get_resource_mut", T, 0, v, r, <<>>)
    /\ UNCHANGED <<components, schedules, halted, spawned, added>>

Resource(T) ==
    /\ ~halted
    /\ OnWorld
    /\ LET r == resource(resources, T)
       IN /\ halted' = r.panicked
          /\ last' = Call("resource", T, 0, 0, r.ret, <<>>)
    /\ UNCHANGED <<components, resources, schedules, spawned, added>>

\* resource_mut, the caller assigning v through the reference it got.
ResourceMut(T, v) ==
    /\ ~halted
    /\ OnWorld
    /\ LET r == resource_mut(resources, T)
       IN /\ halted' = r.panicked
          /\ resources' = IF r.panicked \/ type_name(T) \notin DOMAIN resources
                          THEN resources
                          ELSE write_resource(resources, T, v)
          /\ last' = Call("resource_mut", T, 0, v, r.ret, <<>>)
    /\ UNCHANGED <<components, schedules, spawned, added>>

\* last.ret and last.list hold what HashMap::insert returns: the list the name
\* had before the call, if any.
RegisterSchedule(name) ==
    /\ ~halted
    /\ OnWorld
    /\ schedules' = register_schedule(schedules, name)
    /\ added' = note_register(added, name)
    /\ last' = IF name \in DOMAIN schedules
               THEN Call("register_schedule", name, 0, 0, Some(name, 0), schedules[name])
               ELSE Call("register_schedule", name, 0, 0, None, <<>>)
    /\ UNCHANGED <<components, resources, halted, spawned>>

AddSystem(name, sys) ==
    /\ ~halted
    /\ OnWorld
    /\ name \in DOMAIN schedules => Len(schedules[name]) < MaxSystems
    /\ schedules' = add_system(schedules, name, sys)
    /\ added' = note_add(added, schedules, name, sys)
    /\ last' = Call("add_system", name, 0, 0, None, <<sys>>)
    /\ UNCHANGED <<components, resources, halted, spawned>>

RunSchedule(name) ==
    /\ ~halted
    /\ OnWorld
    /\ LET w == run_schedule([resources |-> resources, schedules |-> schedules,
                              added |-> added, invoked |-> <<>>], name)
       IN /\ \A k \in DOMAIN w.schedules : Len(w.schedules[k]) <= MaxSystems
          /\ resources' = w.resources
          /\ schedules' = w.schedules
          /\ added' = w.added
          /\ last' = Call("run_schedule", name, 0, 0, None, w.invoked)
    /\ UNCHANGED <<components, halted, spawned>>

RunSystem(sys) ==
    /\ ~halted
    /\ OnWorld
    /\ LET w == run_system([resources |-> resources, schedules |-> schedules,
                            added |-> added, invoked |-> <<>>], sys)
       IN /\ \A k \in DOMAIN w.schedules : Len(w.schedules[k]) <= MaxSystems
          /\ resources' = w.resources
          /\ schedules' = w.schedules
          /\ added' = w.added
          /\ last' = Call("run_system", "", 0, 0, None, w.invoked)
    /\ UNCHANGED <<components, halted, spawned>>

\* ------------------------------------------------ accessors and EntityWorld
\* get_single_mut, the caller assigning v through the reference it got.
GetSingleMut(T, v) ==
    /\ ~halted
    /\ OnWorld
    /\ LET r == get_single_mut(components, T)
       IN /\ components' = IF r.some THEN write_component(components, 0, T, v)
                           ELSE components
          /\ last' = Call("get_single_mut", T, 0, v, r, <<>>)
    /\ UNCHANGED <<resources, schedules, halted, spawned, added>>

Single(T) ==
    /\ ~halted
    /\ OnWorld
    /\ LET r == single(components, T)
       IN /\ halted' = r.panicked
          /\ last' = Call("single", T, 0, 0, r.ret, <<>>)
    /\ UNCHANGED <<components, resources, schedules, spawned, added>>

\* single_mut, the caller assigning v through the reference it got.
SingleMut(T, v) ==
    /\ ~halted
    /\ OnWorld
    /\ LET r == single_mut(components, T)
       IN /\ halted' = r.panicked
          /\ components' = IF r.panicked \/ ~get_single_mut(components, T).some
                           THEN components
                           ELSE write_component(components, 0, T, v)
          /\ last' = Call("single_mut", T, 0, v, r.ret, <<>>)
    /\ UNCHANGED <<resources, schedules, spawned, added>>

\* World::spawn with the returned EntityWorld kept alive by the caller.
SpawnEntityWorld ==
    /\ ~halted
    /\ ~handle.live
    /\ Len(spawned) < MaxSpawns
    /\ \E id \in first_len(components) :
          /\ components' = spawn_push(components)
          /\ spawned' = Append(spawned, id)
          /\ handle' = EntityWorld(id)
          /\ last' = Call("spawn", "", id, 0, None, <<>>)
    /\ UNCHANGED <<resources, schedules, halted, added>>

EntityWorldInsert(T, v) ==
    /\ ~halted
    /\ handle.live
    /\ \E len \in first_len(components) :
          LET r == EntityWorld_insert(components, handle, T, v, len)
          IN /\ components' = r.world.components
             /\ halted' = r.world.panicked
             /\ handle' = r.self
    /\ last' = Call("EntityWorld::insert", T, handle.entity, v, None, <<>>)
    /\ UNCHANGED <<resources, schedules, spawned, added>>

EntityWorldRemove(T) ==
    /\ ~halted
    /\ handle.live
    /\ \E len \in first_len(components) :
          LET r == EntityWorld_remove(components, handle, T, len)
          IN /\ components' = r.world.components
             /\ halted' = r.world.panicked
             /\ handle' = r.self
    /\ last' = Call("EntityWorld::remove", T, handle.entity, 0, None, <<>>)
    /\ UNCHANGED <<resources, schedules, spawned, added>>

\* id(self) consumes the EntityWorld; last.e is the Entity it returns.
EntityWorldId ==
    /\ ~halted
    /\ handle.live
    /\ handle' = NoEntityWorld
    /\ last' = Call("EntityWorld::id", "", EntityWorld_id(handle), 0, None, <<>>)
    /\ UNCHANGED <<components, resources, schedules, halted, spawned, added>>

\* despawn(self) consumes the EntityWorld.
EntityWorldDespawn ==
    /\ ~halted
    /\ handle.live
    /\ components' = EntityWorld_despawn(components, handle)
    /\ handle' = NoEntityWorld
    /\ last' = Call("EntityWorld::despawn", "", handle.entity, 0, None, <<>>)
    /\ UNCHANGED <<resources, schedules, halted, spawned, added>>

EntityWorldGetComponent(T) ==
    /\ ~halted
    /\ handle.live
    /\ last' = Call("EntityWorld::get_component", T, handle.entity, 0,
                    EntityWorld_get_component(components, handle, T), <<>>)
    /\ UNCHANGED <<components, resources, schedules, halted, spawned, added, handle>>

\* get_component_mut, the caller assigning v through the reference it got.
EntityWorldGetComponentMut(T, v) ==
    /\ ~halted
    /\ handle.live
    /\ LET r == EntityWorld_get_component_mut(components, handle, T)
       IN /\ components' = IF r.some
                           THEN write_component(components, handle.entity, T, v)
                           ELSE components
          /\ last' = Call("EntityWorld::get_component_mut", T, handle.entity, v, r, <<>>)
    /\ UNCHANGED <<resources, schedules, halted, spawned, added, handle>>

EntityWorldComponent(T) ==
    /\ ~halted
    /\ handle.live
    /\ LET r == EntityWorld_component(components, handle, T)
       IN /\ halted' = r.panicked
          /\ last' = Call("EntityWorld::component", T, handle.entity, 0, r.ret, <<>>)
    /\ UNCHANGED <<components, resources, schedules, spawned, added, handle>>

\* component_mut, the caller assigning v through the reference it got.
EntityWorldComponentMut(T, v) ==
    /\ ~halted
    /\ handle.live
    /\ LET r == EntityWorld_component_mut(components, handle, T)
       IN /\ halted' = r.panicked
          /\ components' =
                IF r.panicked \/ ~EntityWorld_get_component_mut(components, handle, T).some
                THEN components
                ELSE write_component(components, handle.entity, T, v)
          /\ last' = Call("EntityWorld::component_mut", T, handle.entity, v, r.ret, <<>>)
    /\ UNCHANGED <<resources, schedules, spawned, added, handle>>

Next ==
    \/ \E T \in Types : RegisterComponent(T)
    \/ Spawn
    \/ \E e \in Entities : Despawn(e)
    \/ \E e \in Entities, T \in Types, v \in Values : AddComponent(e, T, v)
    \/ \E e \in Entities, T \in Types : RemoveComponent(e, T)
    \/ \E e \in Entities, T \in Types : GetComponent(e, T)
    \/ \E T \in Types : Query(T)
    \/ \E T \in Types : GetSingle(T)

Spec == Init /\ [][Next]_vars

\* The driver's side of the World: resources and schedules.
NextSched ==
    \/ \E T \in ResTypes : InitResource(T)
    \/ \E T \in ResTypes, v \in Values : InsertResource(T, v)
    \/ \E T \in ResTypes : GetResource(T)
    \/ \E T \in ResTypes, v \in Values : GetResourceMut(T, v)
    \/ \E T \in ResTypes : Resource(T)
    \/ \E T \in ResTypes, v \in Values : ResourceMut(T, v)
    \/ \E name \in Names : RegisterSchedule(name)
    \/ \E name \in Names, sys \in Systems : AddSystem(name, sys)
    \/ \E name \in Names : RunSchedule(name)

SpecSched == Init /\ [][NextSched]_vars

\* A schedule whose systems add to it or register it again while it runs.
NextRun ==
    \/ \E name \in Names : RegisterSchedule(name)
    \/ \E name \in Names, sys \in RunSystems : AddSystem(name, sys)
    \/ \E name \in Names : RunSchedule(name)
    \/ \E sys \in Systems \cup RunSystems : RunSystem(sys)
    \/ \E v \in Values : InsertResource("X", v)

SpecRun == Init /\ [][NextRun]_vars

\* Entities coming and going on a World that also holds a resource and a
\* schedule.
NextFrame ==
    \/ \E T \in Types : RegisterComponent(T)
    \/ Spawn
    \/ \E e \in Entities : Despawn(e)
    \/ \E e \in Entities, v \in Values : AddComponent(e, "Position", v)
    \/ \E v \in Values : InsertResource("X", v)
    \/ RegisterSchedule("update")
    \/ AddSystem("update", "S1")

SpecFrame == Init /\ [][NextFrame]_vars

\* The EntityWorld builder: spawn and the calls chained on what it returns.
NextEntity ==
    \/ \E T \in Types : RegisterComponent(T)
    \/ SpawnEntityWorld
    \/ \E T \in Types, v \in Values : EntityWorldInsert(T, v)
    \/ \E T \in Types : EntityWorldRemove(T)
    \/ EntityWorldId
    \/ EntityWorldDespawn
    \/ \E T \in Types : EntityWorldGetComponent(T)

SpecEntity == Init /\ [][NextEntity]_vars

\* The fatal and non-fatal accessors, on a World whose driver stores one
\* component type and one resource type and asks for both of each.
NextAccess ==
    \/ \E T \in Types : RegisterComponent(T)
    \/ SpawnEntityWorld
    \/ \E v \in Values : EntityWorldInsert("Position", v)
    \/ EntityWorldId
    \/ \E T \in Types : EntityWorldGetComponent(T)
    \/ \E T \in Types, v \in Values : EntityWorldGetComponentMut(T, v)
    \/ \E T \in Types : EntityWorldComponent(T)
    \/ \E T \in Types, v \in Values : EntityWorldComponentMut(T, v)
    \/ \E T \in Types : GetSingle(T)
    \/ \E T \in Types, v \in Values : GetSingleMut(T, v)
    \/ \E T \in Types : QueryMut(T)
    \/ \E T \in Types : Single(T)
    \/ \E T \in Types, v \in Values : SingleMut(T, v)
    \/ InitResource("X")
    \/ \E T \in ResTypes : GetResource(T)
    \/ \E T \in ResTypes, v \in Values : GetResourceMut(T, v)
    \/ \E T \in ResTypes : Resource(T)
    \/ \E T \in ResTypes, v \in Values : ResourceMut(T, v)

SpecAccess == Init /\ [][NextAccess]_vars

\* ------------------------------------------------------------------ claims
\* The entity argument of the last call was returned by an earlier spawn.
WasSpawned(e) == \E i \in DOMAIN spawned : spawned[i] = e

\* C1 (as stated): row alignment: every registered component array has length
\* exactly N, the number of spawn calls made so far, also for spawns made while
\* no component type was registered.
C1_RowAlignment ==
    \A k \in DOMAIN components : Len(components[k]) = Len(spawned)

\* C2 (as stated): entities are never reused: every spawn call returns an id
\* different from the id returned by every earlier spawn call.
C2_EntitiesNeverReused ==
    \A i, j \in DOMAIN spawned : i # j => spawned[i] # spawned[j]

\* C3 (as stated): add_component<T>(e, v) on an entity returned by an earlier
\* spawn does not halt and afterwards get_component<T>(e) returns v; for a T
\* not registered before, T is registered with one absent slot per
\* pre-existing row and only row e is then stored.
C3_AddComponentStores ==
    [][(last'.op = "add_component" /\ WasSpawned(last'.e)) =>
        /\ ~halted'
        /\ get_component(components', last'.e, last'.ty) = Some(last'.ty, last'.val)
        /\ type_name(last'.ty) \notin DOMAIN components =>
              \A len \in first_len(components) :
                 /\ Len(components'[type_name(last'.ty)]) = len
                 /\ \A e \in 0..(len - 1) :
                       e # last'.e => ~components'[type_name(last'.ty)][e + 1].some
      ]_vars

\* C4: despawn(E) sets the slot at row E to absent in every registered array,
\* keeps every array's length, leaves every slot of every other row unchanged,
\* and get_component on every other entity returns what it returned before.
C4_DespawnClearsNeverShifts ==
    [][last'.op = "despawn" =>
        /\ DOMAIN components' = DOMAIN components
        /\ \A k \in DOMAIN components :
              /\ Len(components'[k]) = Len(components[k])
              /\ \A i \in 1..Len(components[k]) :
                    components'[k][i] =
                        IF i = last'.e + 1 THEN None ELSE components[k][i]
        /\ \A T \in Types :
              /\ get_component(components', last'.e, T) = None
              /\ \A e \in Entities \ {last'.e} :
                    get_component(components', e, T) = get_component(components, e, T)
      ]_vars

\* A despawn of a row below an entity that still holds a component.
C4_Witness ==
    /\ last.op = "despawn"
    /\ \E k \in DOMAIN components :
          /\ last.e + 1 < Len(components[k])
          /\ components[k][last.e + 2].some

\* C5: query<T>() returns exactly the pairs (e, value) of the rows whose T slot
\* is occupied, in strictly ascending row order, without duplicates and without
\* an entry for an absent slot; for an unregistered T it is empty.
C5_QueryCompleteAndOrdered ==
    \A T \in Types :
        LET q == query(components, T)
        IN IF type_name(T) \notin DOMAIN components
           THEN q = <<>>
           ELSE LET vec == components[type_name(T)]
                IN /\ \A i \in DOMAIN q :
                         /\ q[i].entity \in 0..(Len(vec) - 1)
                         /\ vec[q[i].entity + 1] = Some(T, q[i].val)
                   /\ \A i, j \in DOMAIN q : i < j => q[i].entity < q[j].entity
                   /\ \A e \in 0..(Len(vec) - 1) :
                         vec[e + 1].some => \E i \in DOMAIN q : q[i].entity = e

\* A query over rows 0 and 2 occupied with row 1 absent.
C5_Witness ==
    /\ last.op = "query"
    /\ Len(last.list) = 2
    /\ last.list[1].entity = 0
    /\ last.list[2].entity = 2

\* C6: spawn appends exactly one absent slot to every registered array and
\* changes no existing slot; the id it returns is the common length the arrays
\* had before the call, or zero with no array changed when no type is registered.
C6_SpawnEffectAndResult ==
    [][Len(spawned') = Len(spawned) + 1 =>
        LET id == spawned'[Len(spawned')]
        IN /\ DOMAIN components' = DOMAIN components
           /\ \A k \in DOMAIN components : components'[k] = Append(components[k], None)
           /\ IF DOMAIN components = {}
              THEN id = 0 /\ components' = components
              ELSE \A k \in DOMAIN components : id = Len(components[k])
      ]_vars

\* A spawn of the third row with both types registered and a slot occupied.
C6_Witness ==
    /\ last.op = "spawn"
    /\ last.e = 2
    /\ DOMAIN components = {type_name(T) : T \in Types}
    /\ \E k \in DOMAIN components : components[k][1].some

\* C7 (as stated): get_single<T>() returns a value only when exactly one entity
\* in total has been spawned on the World, T is registered and that entity's
\* slot is occupied.
C7_GetSingleOnlyOneSpawn ==
    \A T \in Types :
        get_single(components, T).some =>
            /\ Len(spawned) = 1
            /\ type_name(T) \in DOMAIN components
            /\ get_component(components, spawned[1], T) = get_single(components, T)

\* C8: run_schedule(name) invokes every system registered under name exactly
\* once, sequentially, in the order of the add_system calls that registered
\* them, each system seeing the changes of the systems before it: S1 (X = 1)
\* then S2 (Y = X + 1) leaves Y = 2, while S2 then S1 on a World without X
\* leaves Y as it was.
C8_ScheduleOrder ==
    [][(last'.op = "run_schedule" /\ last'.ty \in DOMAIN schedules) =>
        /\ last'.list = added[last'.ty]
        /\ added[last'.ty] = <<"S1", "S2">> =>
              /\ get_resource(resources', "X") = Some("X", 1)
              /\ get_resource(resources', "Y") = Some("Y", 2)
        /\ (added[last'.ty] = <<"S2", "S1">> /\ type_name("X") \notin DOMAIN resources) =>
              /\ get_resource(resources', "X") = Some("X", 1)
              /\ get_resource(resources', "Y") = get_resource(resources, "Y")
      ]_vars

\* A run of the schedule <<S1, S2>> that left X = 1 and Y = 2.
C8_Witness ==
    /\ last.op = "run_schedule"
    /\ last.list = <<"S1", "S2">>
    /\ get_resource(resources, "X") = Some("X", 1)
    /\ get_resource(resources, "Y") = Some("Y", 2)

\* C9 (as stated): remove_component<T>(e) on an entity returned by an earlier
\* spawn does not halt, afterwards get_component<T>(e) is absent, every other
\* row of T and every other type is unchanged; for an unregistered T the call
\* registers T with every slot absent and does nothing else.
C9_RemoveComponentClears ==
    [][(last'.op = "remove_component" /\ WasSpawned(last'.e)) =>
        LET name == type_name(last'.ty)
        IN /\ ~halted'
           /\ get_component(components', last'.e, last'.ty) = None
           /\ DOMAIN components' = DOMAIN components \cup {name}
           /\ \A k \in DOMAIN components \ {name} : components'[k] = components[k]
           /\ \A i \in DOMAIN components'[name] :
                 IF name \in DOMAIN components /\ i # last'.e + 1
                 THEN components'[name][i] = components[name][i]
                 ELSE ~components'[name][i].some
           /\ name \in DOMAIN components =>
                 Len(components'[name]) = Len(components[name])
      ]_vars

\* C10: get_component<T>(e) returns the stored value exactly when T is
\* registered, row e exists and its T slot is occupied, absence in every other
\* case; it never halts and never changes the World.
C10_GetComponentTotal ==
    [][last'.op = "get_component" =>
        LET name == type_name(last'.ty)
        IN /\ ~halted'
           /\ components' = components
           /\ resources' = resources
           /\ schedules' = schedules
           /\ last'.ret =
                 IF /\ name \in DOMAIN components
                    /\ last'.e < Len(components[name])
                    /\ components[name][last'.e + 1].some
                 THEN Some(last'.ty, components[name][last'.e + 1].val)
                 ELSE None
      ]_vars

\* A get_component with an index past the end of a registered, non-empty array.
C10_Witness ==
    /\ last.op = "get_component"
    /\ ~halted
    /\ type_name(last.ty) \in DOMAIN components
    /\ Len(components[type_name(last.ty)]) >= 1
    /\ last.e >= Len(components[type_name(last.ty)])
    /\ last.ret = None
    /\ components[type_name(last.ty)][1].some

\* C11 (as stated): after register_component<T>() for a T not registered
\* before, T's array has one slot per entity in the World, its length equals
\* the length of every other registered array, every slot of T is absent and
\* the arrays of all other types are unchanged.
C11_BackfillOnRegistration ==
    [][(last'.op = "register_component" /\ type_name(last'.ty) \notin DOMAIN components) =>
        LET name == type_name(last'.ty)
        IN /\ DOMAIN components' = DOMAIN components \cup {name}
           /\ Len(components'[name]) = Len(spawned)
           /\ \A k \in DOMAIN components :
                 /\ components'[k] = components[k]
                 /\ Len(components'[name]) = Len(components[k])
           /\ \A i \in DOMAIN components'[name] : ~components'[name][i].some
      ]_vars

\* C12: register_component<T>() on an already-registered T does not halt,
\* replaces every T slot by absent and keeps the length of T's array, so no
\* value of T is returned by get_component or query any more; a second
\* register_component<T>() right after it leaves the World as it is.
C12_ReRegistrationResets ==
    [][(last'.op = "register_component" /\ type_name(last'.ty) \in DOMAIN components) =>
        LET name == type_name(last'.ty)
        IN /\ ~halted'
           /\ DOMAIN components' = DOMAIN components
           /\ Len(components'[name]) = Len(components[name])
           /\ \A i \in DOMAIN components'[name] : ~components'[name][i].some
           /\ \A e \in Entities : get_component(components', e, last'.ty) = None
           /\ query(components', last'.ty) = <<>>
           /\ \A len \in first_len(components') :
                 register_component(components', last'.ty, len) = components'
      ]_vars

\* A re-registration that discarded a stored value of a non-empty array.
C12_Witness ==
    /\ last.op = "register_component"
    /\ last.ret.some
    /\ \E i \in DOMAIN last.list : last.list[i].some
    /\ Len(components[type_name(last.ty)]) = Len(last.list)

\* C13: for distinct types A and B, add_component<A>, remove_component<A> and
\* register_component<A> never change the result of get_component<B>(e) for
\* any entity e nor the result of query<B>(), and every value a get or query
\* for B returns was stored as a B.
C13_TypeIsolation ==
    [][last'.op \in {"add_component", "remove_component", "register_component"} =>
        /\ \A B \in Types \ {last'.ty} :
              /\ query(components', B) = query(components, B)
              /\ \A e \in Entities :
                    get_component(components', e, B) = get_component(components, e, B)
        /\ \A B \in Types :
              type_name(B) \in DOMAIN components' =>
                 \A i \in DOMAIN components'[type_name(B)] :
                    components'[type_name(B)][i].some =>
                       components'[type_name(B)][i].ty = B
      ]_vars

\* An add_component of one type at a row whose slot of the other type holds a
\* different value.
C13_Witness ==
    /\ last.op = "add_component"
    /\ ~halted
    /\ \E B \in Types \ {last.ty} :
          /\ get_component(components, last.e, B).some
          /\ get_component(components, last.e, B).val # last.val
          /\ get_component(components, last.e, last.ty) = Some(last.ty, last.val)

\* C14: after init_resource<T>/insert_resource<T> the World holds one value
\* for T and get_resource<T>() returns the value of the latest call (the
\* default for init_resource, the argument for insert_resource), afterwards
\* the value assigned through resource_mut/get_resource_mut; a call that
\* writes another type, or that writes nothing, leaves the value of T as it is.
C14_ResourceOverwrite ==
    [][/\ last'.op = "init_resource" =>
             get_resource(resources', last'.ty) = Some(last'.ty, 0)
       /\ last'.op = "insert_resource" =>
             get_resource(resources', last'.ty) = Some(last'.ty, last'.val)
       /\ (last'.op \in {"resource_mut", "get_resource_mut"} /\ last'.ret.some) =>
             get_resource(resources', last'.ty) = Some(last'.ty, last'.val)
       /\ last'.op \in {"init_resource", "insert_resource", "resource_mut",
                        "get_resource_mut"} =>
             /\ DOMAIN resources' \subseteq DOMAIN resources \cup {type_name(last'.ty)}
             /\ \A T \in ResTypes \ {last'.ty} :
                   get_resource(resources', T) = get_resource(resources, T)
       /\ last'.op \in {"get_resource", "resource", "register_schedule", "add_system"} =>
             /\ resources' = resources
             /\ last'.op \in {"get_resource", "resource"} =>
                   last'.ret = get_resource(resources, last'.ty)
      ]_vars

\* An insert_resource that replaced a different earlier value of the type.
C14_Witness ==
    /\ last.op = "insert_resource"
    /\ last.ret.some
    /\ last.ret.val # last.val
    /\ get_resource(resources, last.ty) = Some(last.ty, last.val)

\* Position i of the invoked list is a system that inserts resource T: S1
\* inserts X; S2 inserts Y when X is present, that is when X was present
\* before the run or S1 ran earlier in it.
Inserts(list, i, T, hadX) ==
    \/ T = "X" /\ list[i] = "S1"
    \/ /\ T = "Y"
       /\ list[i] = "S2"
       /\ hadX \/ \E j \in 1..(i - 1) : list[j] = "S1"

\* C15: get_resource<T>() and get_resource_mut<T>() return absence, without
\* halting and without creating or changing a resource, exactly when no
\* init_resource<T>/insert_resource<T> call was made for T (by the driver or
\* by a system); a call for another type never makes T present.
C15_ResourceAbsenceExplicit ==
    [][/\ \A T \in ResTypes :
             (type_name(T) \in DOMAIN resources') <=>
                \/ type_name(T) \in DOMAIN resources
                \/ last'.op \in {"init_resource", "insert_resource"} /\ last'.ty = T
                \/ /\ last'.op = "run_schedule"
                   /\ \E i \in DOMAIN last'.list :
                         Inserts(last'.list, i, T, type_name("X") \in DOMAIN resources)
       /\ last'.op \in {"get_resource", "get_resource_mut"} =>
             /\ ~halted'
             /\ DOMAIN resources' = DOMAIN resources
             /\ last'.ret.some <=> type_name(last'.ty) \in DOMAIN resources
             /\ ~last'.ret.some => resources' = resources
      ]_vars

\* A get_resource of a type never inserted, in a World holding another resource.
C15_Witness ==
    /\ last.op = "get_resource"
    /\ last.ret = None
    /\ ~halted
    /\ type_name(last.ty) \notin DOMAIN resources
    /\ DOMAIN resources # {}

\* C17: add_system(name, f) and run_schedule(name) with a name that is not
\* registered leave the whole World unchanged and invoke no system; the
\* dropped system is not remembered: a register_schedule(name) followed by
\* run_schedule(name) invokes nothing.
C17_UnknownScheduleNoOp ==
    [][/\ (last'.op \in {"add_system", "run_schedule"} /\ last'.ty \notin DOMAIN schedules) =>
             /\ ~halted'
             /\ components' = components
             /\ resources' = resources
             /\ schedules' = schedules
             /\ last'.op = "run_schedule" => last'.list = <<>>
       /\ last'.op = "register_schedule" => schedules'[last'.ty] = <<>>
       /\ (last.op = "register_schedule" /\ last'.op = "run_schedule"
              /\ last'.ty = last.ty) =>
             last'.list = <<>>
      ]_vars

\* An add_system on an unregistered name while another schedule holds systems.
C17_Witness ==
    /\ last.op = "add_system"
    /\ last.ty \notin DOMAIN schedules
    /\ \E k \in DOMAIN schedules : schedules[k] # <<>>

\* C18: register_schedule(name) leaves an empty list under name, discarding
\* the systems of an already registered name, so a later run_schedule(name)
\* invokes only the systems added by add_system since that registration.
C18_RegisterScheduleClears ==
    [][/\ last'.op = "register_schedule" =>
             /\ last'.ty \in DOMAIN schedules'
             /\ schedules'[last'.ty] = <<>>
             /\ added'[last'.ty] = <<>>
       /\ (last'.op = "run_schedule" /\ last'.ty \in DOMAIN schedules) =>
             /\ last'.list = added[last'.ty]
             /\ last'.list = schedules[last'.ty]
      ]_vars

\* A register_schedule that discarded the systems of a registered name.
C18_Witness ==
    /\ last.op = "register_schedule"
    /\ last.ret.some
    /\ last.list # <<>>
    /\ schedules[last.ty] = <<>>

\* C19: register_schedule(a) and add_system(a, f) never change the system list
\* of a different schedule b, and run_schedule(a) invokes no system other than
\* those registered under a.
C19_SchedulesIndependent ==
    [][/\ last'.op \in {"register_schedule", "add_system"} =>
             \A b \in DOMAIN schedules \ {last'.ty} :
                /\ b \in DOMAIN schedules'
                /\ schedules'[b] = schedules[b]
       /\ last'.op \in {"register_schedule", "add_system"} =>
             DOMAIN schedules' \subseteq DOMAIN schedules \cup {last'.ty}
       /\ (last'.op = "run_schedule" /\ last'.ty \in DOMAIN schedules) =>
             \A i \in DOMAIN last'.list :
                \E j \in DOMAIN schedules[last'.ty] :
                   last'.list[i] = schedules[last'.ty][j]
      ]_vars

\* A register_schedule of one name while the other name holds systems.
C19_Witness ==
    /\ last.op = "register_schedule"
    /\ \E b \in DOMAIN schedules \ {last.ty} : schedules[b] # <<>>

\* The three maps of the World are left as they were.
WorldUnchanged ==
    /\ components' = components
    /\ resources' = resources
    /\ schedules' = schedules

\* C16: each bare accessor (resource, resource_mut, single, single_mut,
\* EntityWorld::component, EntityWorld::component_mut) halts exactly in the
\* states where its get_ counterpart returns absence, and otherwise returns
\* what that counterpart returns; it substitutes no default and does not
\* change the World before halting.
C16_FatalPairing ==
    [][/\ last'.op \in {"resource", "resource_mut"} =>
             LET g == IF last'.op = "resource"
                      THEN get_resource(resources, last'.ty)
                      ELSE get_resource_mut(resources, last'.ty)
             IN /\ halted' <=> ~g.some
                /\ ~halted' => last'.ret = g
                /\ (halted' \/ last'.op = "resource") => WorldUnchanged
       /\ last'.op \in {"single", "single_mut"} =>
             LET g == IF last'.op = "single"
                      THEN get_single(components, last'.ty)
                      ELSE get_single_mut(components, last'.ty)
             IN /\ halted' <=> ~g.some
                /\ ~halted' => last'.ret = g
                /\ (halted' \/ last'.op = "single") => WorldUnchanged
       /\ last'.op \in {"EntityWorld::component", "EntityWorld::component_mut"} =>
             LET g == IF last'.op = "EntityWorld::component"
                      THEN EntityWorld_get_component(components, handle, last'.ty)
                      ELSE EntityWorld_get_component_mut(components, handle, last'.ty)
             IN /\ halted' <=> ~g.some
                /\ ~halted' => last'.ret = g
                /\ (halted' \/ last'.op = "EntityWorld::component") => WorldUnchanged
      ]_vars

\* A single<T>() that halted on an array of two rows, one of them occupied.
C16_Witness ==
    /\ last.op = "single"
    /\ halted
    /\ type_name(last.ty) \in DOMAIN components
    /\ Len(components[type_name(last.ty)]) = 2
    /\ \E i \in 1..2 : components[type_name(last.ty)][i].some

\* The entity id returned by the latest spawn call.
LastSpawned == spawned[Len(spawned)]

\* C20: the EntityWorld carries the id chosen by spawn along the whole chain;
\* insert and remove leave the World as World::add_component and
\* World::remove_component called with that id do, id() returns that id and
\* changes nothing, and EntityWorld::despawn is World::despawn of that id.
C20_EntityWorldForwards ==
    [][/\ handle'.live =>
             /\ Len(spawned') > 0
             /\ handle'.entity = spawned'[Len(spawned')]
       /\ last'.op = "EntityWorld::insert" =>
             \E len \in first_len(components) :
                LET r == add_component(components, LastSpawned, last'.ty, last'.val, len)
                IN components' = r.components /\ halted' = r.panicked
       /\ last'.op = "EntityWorld::remove" =>
             \E len \in first_len(components) :
                LET r == remove_component(components, LastSpawned, last'.ty, len)
                IN components' = r.components /\ halted' = r.panicked
       /\ last'.op = "EntityWorld::id" =>
             /\ last'.e = LastSpawned
             /\ WorldUnchanged
             /\ ~halted'
       /\ last'.op = "EntityWorld::despawn" =>
             /\ components' = despawn(components, LastSpawned)
             /\ ~halted'
       /\ last'.op = "EntityWorld::get_component" =>
             /\ last'.ret = get_component(components, LastSpawned, last'.ty)
             /\ WorldUnchanged
      ]_vars

\* The end of a chain spawn()...id() on the third row, which the chain left
\* with one type stored and the other type registered and absent.
C20_Witness ==
    /\ last.op = "EntityWorld::id"
    /\ last.e = 2
    /\ \E A \in Types :
          /\ get_component(components, 2, A).some
          /\ \E B \in Types \ {A} :
                /\ type_name(B) \in DOMAIN components
                /\ Len(components[type_name(B)]) = 3
                /\ ~get_component(components, 2, B).some

\* C21: in every reachable state all registered component arrays have the
\* same length, whatever the order of register_component, spawn, despawn,
\* add_component and remove_component calls (re-registration and the
\* registration made by add_component/remove_component included).
C21_ArraysSameLength ==
    \A a, b \in DOMAIN components : Len(components[a]) = Len(components[b])

\* A re-registration of a type on a World with two arrays of two rows each,
\* the other array holding a component.
C21_Witness ==
    /\ last.op = "register_component"
    /\ last.ret.some
    /\ Len(last.list) = 2
    /\ DOMAIN components = {type_name(T) : T \in Types}
    /\ \A k \in DOMAIN components : Len(components[k]) = 2
    /\ \E k \in DOMAIN components, i \in 1..2 : components[k][i].some

\* Every registered array of comps has n rows, and there is at least one.
RowsForAll(comps, n) ==
    /\ DOMAIN comps # {}
    /\ \A k \in DOMAIN comps : Len(comps[k]) = n

\* C22: if at least one component type is registered before the first spawn,
\* the k-th spawn returns entity id k-1 and after N spawns every registered
\* array has length N; no type is ever unregistered, so this goes on for the
\* rest of the World's life.  (A type registered while no spawn has happened
\* has an array of length 0; from there on one row per spawn is kept by every
\* step.)
C22_SpawnCountsRows ==
    [][/\ (Len(spawned) = 0 /\ DOMAIN components # {}) => RowsForAll(components, 0)
       /\ RowsForAll(components, Len(spawned)) =>
             /\ DOMAIN components \subseteq DOMAIN components'
             /\ RowsForAll(components', Len(spawned'))
             /\ last'.op = "spawn" =>
                   /\ Len(spawned') = Len(spawned) + 1
                   /\ spawned'[Len(spawned')] = Len(spawned') - 1
             /\ \A k \in DOMAIN spawned' : spawned'[k] = k - 1
      ]_vars

\* The third spawn on a World that had a type registered before the first
\* spawn: the spawns returned 0, 1, 2 and both arrays have three rows.
C22_Witness ==
    /\ last.op = "spawn"
    /\ spawned = <<0, 1, 2>>
    /\ DOMAIN components = {type_name(T) : T \in Types}
    /\ RowsForAll(components, 3)

\* Position of the last SReg in a list of systems (0 when there is none), the
\* number of SAdd after position from, and n copies of S1.
LastReg(snap) ==
    LET regs == {i \in DOMAIN snap : snap[i] = "SReg"}
    IN IF regs = {} THEN 0 ELSE CHOOSE i \in regs : \A j \in regs : j <= i
AddsAfter(snap, from) ==
    Cardinality({i \in DOMAIN snap : i > from /\ snap[i] = "SAdd"})
Ones(n) == [i \in 1..n |-> "S1"]

\* C23: run_schedule(name) invokes the systems of the list as it was when the
\* call started, each once and in order, even when a system of the run adds
\* to the running schedule or registers it again: the systems after it in
\* the snapshot still run and the new ones do not.  The change is in the
\* stored list after the run, so the next run_schedule uses it, and one run
\* invokes no more systems than the list held at its start.
C23_RunUsesSnapshot ==
    [][(last'.op = "run_schedule" /\ last'.ty \in DOMAIN schedules) =>
        LET snap == schedules[last'.ty]
            reg == LastReg(snap)
        IN /\ last'.list = snap
           /\ Len(last'.list) <= MaxSystems
           /\ (\E i \in DOMAIN snap : snap[i] = "S1") =>
                 get_resource(resources', "X") = Some("X", 1)
           /\ reg > 0 =>
                 /\ "update" \in DOMAIN schedules'
                 /\ schedules'["update"] = Ones(AddsAfter(snap, reg))
           /\ (reg = 0 /\ "update" \in DOMAIN schedules) =>
                 schedules'["update"] = schedules["update"] \o Ones(AddsAfter(snap, 0))
           /\ (reg = 0 /\ "update" \notin DOMAIN schedules) =>
                 "update" \notin DOMAIN schedules'
           /\ \A k \in DOMAIN schedules \ {"update"} : schedules'[k] = schedules[k]
      ]_vars

\* A run of "update" whose first system registered "update" again and whose
\* second system, still invoked, added S1 to it: two systems ran and the
\* stored list is now <<S1>>.
C23_Witness ==
    /\ last.op = "run_schedule"
    /\ last.ty = "update"
    /\ last.list = <<"SReg", "SAdd">>
    /\ schedules["update"] = <<"S1">>

\* C24: despawn(e) for an entity whose row exists in no array (index past the
\* end, or no component type registered) leaves the World unchanged and does
\* not halt; and every despawn leaves all resources and all schedules
\* unchanged.
C24_DespawnFrame ==
    [][last'.op = "despawn" =>
        /\ ~halted'
        /\ resources' = resources
        /\ schedules' = schedules
        /\ (\A k \in DOMAIN components : ~(last'.e < Len(components[k]))) =>
              components' = components
      ]_vars

\* A despawn of a row past the end of a non-empty array that holds a
\* component, on a World with a resource and a schedule with a system.
C24_Witness ==
    /\ last.op = "despawn"
    /\ DOMAIN components # {}
    /\ \A k \in DOMAIN components :
          /\ Len(components[k]) >= 1
          /\ last.e >= Len(components[k])
    /\ \E k \in DOMAIN components : components[k][1].some
    /\ DOMAIN resources # {}
    /\ \E n \in DOMAIN schedules : schedules[n] # <<>>

\* C25 (as stated): after despawn(e) of a spawned entity get_component<T>(e)
\* is absent for every T, and an add_component<T>(e, v) that follows completes
\* and makes e appear in get_component<T> and in query<T> with value v, no
\* array changing its length (e keeps its row index).
C25_DespawnedEntityReusable ==
    [][/\ (last'.op = "despawn" /\ WasSpawned(last'.e)) =>
             \A T \in Types : get_component(components', last'.e, T) = None
       /\ (/\ last.op = "despawn"
           /\ WasSpawned(last.e)
           /\ last'.op = "add_component"
           /\ last'.e = last.e) =>
             /\ ~halted'
             /\ get_component(components', last'.e, last'.ty) = Some(last'.ty, last'.val)
             /\ \E i \in DOMAIN query(components', last'.ty) :
                   query(components', last'.ty)[i] = [entity |-> last'.e, val |-> last'.val]
             /\ \A k \in DOMAIN components : Len(components'[k]) = Len(components[k])
      ]_vars

\* C26: add_component<T>(e, v) and remove_component<T>(e) on a registered T
\* with e greater than or equal to the length of T's array halt (index out
\* of bounds) and leave the component arrays as they were: no absence is
\* returned and no array grows.  The same index gives absence, without
\* halting, in get_component and makes despawn a no-op.
C26_OutOfBoundsHalts ==
    [][/\ (/\ last'.op \in {"add_component", "remove_component"}
           /\ type_name(last'.ty) \in DOMAIN components
           /\ last'.e >= Len(components[type_name(last'.ty)])) =>
             /\ halted'
             /\ components' = components
       /\ (/\ last'.op = "get_component"
           /\ type_name(last'.ty) \in DOMAIN components
           /\ last'.e >= Len(components[type_name(last'.ty)])) =>
             /\ ~halted'
             /\ last'.ret = None
             /\ components' = components
       /\ (/\ last'.op = "despawn"
           /\ \E k \in DOMAIN components : last'.e >= Len(components[k])) =>
             /\ ~halted'
             /\ components' = components
      ]_vars

\* An add_component that halted on an index past the end of a registered
\* array of two rows, one of them holding a component.
C26_Witness ==
    /\ last.op = "add_component"
    /\ halted
    /\ type_name(last.ty) \in DOMAIN components
    /\ Len(components[type_name(last.ty)]) = 2
    /\ last.e >= 2
    /\ \E i \in 1..2 : components[type_name(last.ty)][i].some

====
